---- MODULE Spec2Model ----
(***************************************************************************)
(* Model of the product matching engine of the Visual Product Matcher      *)
(* backend: ProductService.find_similar_products_by_identification with    *)
(* its four search strategies (app/services/product_service.py), the       *)
(* connection handling of DatabaseManager (app/config/database.py) and     *)
(* the application start-up (app/main.py).                                 *)
(*                                                                         *)
(* Strings are sequences of one-character strings, so that LOWER(), the    *)
(* LIKE patterns and str.lower() are computed and not assumed.  Scores     *)
(* are integers in hundredths (0.95 is 95); prices are in cents.           *)
(***************************************************************************)
EXTENDS Integers, Sequences, FiniteSets, TLC

(***************************************************************************)
(* Bounds of the model.                                                    *)
(***************************************************************************)
MaxCatalog == 2   \* rows of the products table
MaxLimit == 2     \* largest `limit` passed to a search

(***************************************************************************)
(* Strings.                                                                *)
(***************************************************************************)
NULL == <<"NULL">>   \* SQL NULL / Python None; no string of the model equals it

UpperLetters ==
  <<"A","B","C","D","E","F","G","H","I","J","K","L","M",
    "N","O","P","Q","R","S","T","U","V","W","X","Y","Z">>

LowerLetters ==
  <<"a","b","c","d","e","f","g","h","i","j","k","l","m",
    "n","o","p","q","r","s","t","u","v","w","x","y","z">>

\* str.lower() / SQL LOWER() on one character
LowerChar(c) ==
  IF \E i \in 1..26 : UpperLetters[i] = c
    THEN LowerLetters[CHOOSE i \in 1..26 : UpperLetters[i] = c]
    ELSE c

\* str.lower() / SQL LOWER() on a string
Lower(s) == [i \in 1..Len(s) |-> LowerChar(s[i])]

\* SQL: x LIKE pattern, with % (any run of characters) and _ (any one character)
RECURSIVE Like(_, _)
Like(s, p) ==
  IF p = <<>> THEN s = <<>>
  ELSE IF Head(p) = "%"
    THEN Like(s, Tail(p)) \/ (s # <<>> /\ Like(Tail(s), p))
    ELSE s # <<>> /\ (Head(p) = "_" \/ Head(p) = Head(s)) /\ Like(Tail(s), Tail(p))

\* f"%{term.lower()}%"
TermPattern(term) == <<"%">> \o Lower(term) \o <<"%">>

\* SQL: LOWER(column) LIKE pattern; a NULL column makes the condition NULL (not true)
LowerLike(column, pattern) == column # NULL /\ Like(Lower(column), pattern)

\* SQL: LOWER(column) = LOWER(%s), the parameter being a string
LowerEq(column, param) == column # NULL /\ Lower(column) = Lower(param)

\* Python truthiness of an Optional[str]: None and "" are falsy
Truthy_NotNone(s) == s # NULL

Truthy(s) == s # NULL /\ s # <<>>

\* sequence[:n]
Take_All(s, n) == s

Take(s, n) == [i \in 1..(IF Len(s) < n THEN Len(s) ELSE n) |-> s[i]]

(***************************************************************************)
(* The strings of the model.                                               *)
(***************************************************************************)
sAcme == <<"A","c","m","e">>
sAcmeLower == <<"a","c","m","e">>
sZed == <<"Z","e","d">>
sElectronics == <<"E","l","e","c","t","r","o","n","i","c","s">>
sElectronicsLower == <<"e","l","e","c","t","r","o","n","i","c","s">>
sFashion == <<"F","a","s","h","i","o","n">>
sHomeLiving == <<"H","o","m","e"," ","&"," ","L","i","v","i","n","g">>
sBeautyHealth == <<"B","e","a","u","t","y"," ","&"," ","H","e","a","l","t","h">>
sSportsOutdoors ==
  <<"S","p","o","r","t","s"," ","&"," ","O","u","t","d","o","o","r","s">>
sToys == <<"T","o","y","s">>
sCam == <<"C","a","m">>
sCamUpper == <<"C","A","M">>
sPen == <<"P","e","n">>
sPenLower == <<"p","e","n">>

\* the fixed enumeration of categories an identification may carry
valid_categories ==
  {sElectronics, sFashion, sHomeLiving, sBeautyHealth, sSportsOutdoors}

(***************************************************************************)
(* The catalog: rows of the products table with their product_tags rows.   *)
(***************************************************************************)
NoNumber == 0 - 1   \* SQL NULL / Python None in a numeric column (sorts below every number)

\* ProductBase / Product: the columns of a products row; tags are the
\* product_tags rows joined to it
BaseRow ==
  [id |-> 0, name |-> sCam, description |-> NULL, category |-> sElectronics,
   brand |-> sAcme, price |-> 1999, rating |-> 450, review_count |-> 100,
   in_stock |-> TRUE, tags |-> <<sCam>>]

\* the rows a catalog of the model is made of: the base row and rows that
\* differ from it in one column
RowList ==
  << BaseRow,
     [BaseRow EXCEPT !.name = sPen],
     [BaseRow EXCEPT !.description = sPenLower],
     [BaseRow EXCEPT !.category = sToys],
     [BaseRow EXCEPT !.brand = sZed],
     [BaseRow EXCEPT !.price = 0],
     [BaseRow EXCEPT !.rating = 480],
     [BaseRow EXCEPT !.in_stock = FALSE],
     [BaseRow EXCEPT !.tags = <<>>] >>

\* the products table in insertion order, up to MaxCatalog rows; id is the
\* primary key.  Rows are inserted in the order of RowList: the order of
\* insertion only decides between rows with equal ORDER BY keys
Catalogs ==
  UNION {{[k \in 1..n |-> [RowList[f[k]] EXCEPT !.id = k]] :
            f \in {g \in [1..n -> 1..Len(RowList)] :
                     \A k \in 1..(n - 1) : g[k] <= g[k + 1]}} :
         n \in 0..MaxCatalog}

\* ProductBase: the constraints Product(**row) validates (pydantic Field)
ValidProduct(row) ==
  /\ Len(row.name) >= 1
  /\ Len(row.category) >= 1
  /\ row.price > 0
  /\ Len(row.brand) >= 1
  /\ (row.rating = NoNumber \/ (row.rating >= 0 /\ row.rating <= 500))
  /\ (row.review_count = NoNumber \/ row.review_count >= 0)

(***************************************************************************)
(* The identification record and the inputs of a search.                   *)
(***************************************************************************)
TermLists == {<<>>, <<sCamUpper>>, <<sPenLower>>, <<sPenLower, sCamUpper>>}

\* ObjectIdentification: the fields the matching reads
Identifications ==
  [brand : {NULL, <<>>, sAcmeLower},
   category : {NULL, sElectronicsLower, sToys},
   search_terms : TermLists]

Limits == 1..MaxLimit

(***************************************************************************)
(* SQL: ORDER BY k1 DESC, k2 DESC, ...  keys[j] is the tuple of ORDER BY   *)
(* values of rows[j] (NULL sorting below every number); rows with equal    *)
(* keys keep the table's order.                                            *)
(***************************************************************************)
KeyGreater(a, b) ==
  \E k \in 1..Len(a) : a[k] > b[k] /\ \A m \in 1..(k - 1) : a[m] = b[m]

OrderByDesc_TableOrder(rows, keys) == rows

OrderByDesc(rows, keys) ==
  LET n == Len(rows)
      Rank(j) == Cardinality({m \in 1..n :
                    \/ KeyGreater(keys[m], keys[j])
                    \/ (keys[m] = keys[j] /\ m < j)}) + 1
  IN  [k \in 1..n |-> rows[CHOOSE j \in 1..n : Rank(j) = k]]

\* ORDER BY rating DESC, review_count DESC
RatingKey(p) == <<p.rating, p.review_count>>

\* the result of calling a strategy: it raised, or it returned `products`;
\* queried tells whether it sent a query to the store
Raised(q) == [raised |-> TRUE, products |-> <<>>, queried |-> q]
Returned(ps, q) == [raised |-> FALSE, products |-> ps, queried |-> q]

\* ProductWithSimilarity(**product.dict(), similarity_score=..., match_reason=...)
Candidate(row, score, reason) ==
  [id |-> row.id, name |-> row.name, description |-> row.description,
   category |-> row.category, brand |-> row.brand, price |-> row.price,
   rating |-> row.rating, review_count |-> row.review_count,
   in_stock |-> row.in_stock, similarity_score |-> score, match_reason |-> reason]

(***************************************************************************)
(* The four search strategies.  `connection` stands for the aiomysql       *)
(* connection the strategy queries: rows is the products table, fails      *)
(* tells whether the store raises on cursor.execute, and computed is the   *)
(* Python type the driver delivers a computed DECIMAL column in (aiomysql  *)
(* delivers DECIMAL as decimal.Decimal, which is why the service has       *)
(* _convert_decimal_fields; a store that delivers floats is admitted too). *)
(***************************************************************************)
MaxSearchTerms == 3   \* identification.search_terms[:3]

sExactBrandOpen ==
  <<"E","x","a","c","t"," ","b","r","a","n","d"," ","(">>
sAndCategoryMatch ==
  <<")"," ","a","n","d"," ","c","a","t","e","g","o","r","y"," ","m","a","t","c","h">>
sCategoryKeywordMatch ==
  <<"C","a","t","e","g","o","r","y"," ","a","n","d"," ","k","e","y","w","o","r","d"," ","m","a","t","c","h">>
sKeywordSearchMatch ==
  <<"K","e","y","w","o","r","d"," ","s","e","a","r","c","h"," ","m","a","t","c","h">>
sTagBasedOpen ==
  <<"T","a","g","-","b","a","s","e","d"," ","m","a","t","c","h"," ","(">>
sMatchingTags ==
  <<" ","m","a","t","c","h","i","n","g"," ","t","a","g","s",")">>

Digits == <<"0","1","2","3","4","5","6","7","8","9">>

\* str(n) for n >= 0
RECURSIVE IntToStr(_)
IntToStr(n) ==
  IF n < 10 THEN <<Digits[n + 1]>>
  ELSE IntToStr(n \div 10) \o <<Digits[(n % 10) + 1]>>

Connections(rows) ==
  [rows : {rows}, fails : BOOLEAN, computed : {"Decimal", "float"}]

\* SQL: AND in_stock = TRUE
InStock_Any(p) == TRUE

InStock(p) == p.in_stock

\* SQL: LIMIT %s
SqlLimit_NoLimit(rows, n) == rows

SqlLimit(rows, n) == Take(rows, n)

Min(a, b) == IF a < b THEN a ELSE b
Max(a, b) == IF a > b THEN a ELSE b

\* Strategy 1: exact brand and category match
exact_brand_category_search(connection, identification, limit) ==
  IF ~Truthy(identification.brand) \/ ~Truthy(identification.category)
    THEN Returned(<<>>, FALSE)
  ELSE IF connection.fails THEN Raised(TRUE)
  ELSE
    LET selected == SelectSeq(connection.rows, LAMBDA p :
                      /\ LowerEq(p.brand, identification.brand)
                      /\ LowerEq(p.category, identification.category)
                      /\ InStock(p))
        rows == SqlLimit(OrderByDesc(selected,
                  [k \in 1..Len(selected) |-> RatingKey(selected[k])]), limit)
        reason == sExactBrandOpen \o identification.brand \o sAndCategoryMatch
    IN  IF \E k \in 1..Len(rows) : ~ValidProduct(rows[k]) THEN Raised(TRUE)
        ELSE Returned([k \in 1..Len(rows) |-> Candidate(rows[k], 95, reason)], TRUE)

\* SQL: (LOWER(name) LIKE %s OR LOWER(description) LIKE %s) OR ... over the terms
NameOrDescriptionLike(p, terms) ==
  \E k \in 1..Len(terms) :
    \/ LowerLike(p.name, TermPattern(terms[k]))
    \/ LowerLike(p.description, TermPattern(terms[k]))

\* SQL: CASE WHEN LOWER(brand) = LOWER(%s) THEN 0.2 ELSE 0 END, with
\* identification.brand or '' as the parameter
BrandBonus_Always(p, identification) == 20

BrandBonus(p, identification) ==
  IF LowerEq(p.brand, IF Truthy(identification.brand) THEN identification.brand ELSE <<>>)
    THEN 20 ELSE 0

\* ORDER BY brand_bonus DESC, rating DESC, review_count DESC
BonusRatingKey(r) == <<r.brand_bonus>> \o RatingKey(r.row)

\* Python: 0.8 + brand_bonus raises TypeError for a decimal.Decimal operand
FloatAddRaises(computed) == computed = "Decimal"

\* Strategy 2: category match with keyword search
category_keyword_search(connection, identification, limit) ==
  IF ~Truthy(identification.category) \/ identification.search_terms = <<>>
    THEN Returned(<<>>, FALSE)
  ELSE IF connection.fails THEN Raised(TRUE)
  ELSE
    LET terms == Take(identification.search_terms, MaxSearchTerms)
        selected == SelectSeq(connection.rows, LAMBDA p :
                      /\ LowerEq(p.category, identification.category)
                      /\ NameOrDescriptionLike(p, terms)
                      /\ InStock(p))
        withBonus == [k \in 1..Len(selected) |->
                       [row |-> selected[k],
                        brand_bonus |-> BrandBonus(selected[k], identification)]]
        rows == SqlLimit(OrderByDesc(withBonus,
                  [k \in 1..Len(withBonus) |-> BonusRatingKey(withBonus[k])]), limit)
    IN  IF rows # <<>> /\ FloatAddRaises(connection.computed) THEN Raised(TRUE)
        ELSE IF \E k \in 1..Len(rows) : ~ValidProduct(rows[k].row) THEN Raised(TRUE)
        ELSE Returned([k \in 1..Len(rows) |->
                        Candidate(rows[k].row, Min(80 + rows[k].brand_bonus, 100),
                                  sCategoryKeywordMatch)], TRUE)

\* SQL: (LOWER(name) LIKE %s OR LOWER(description) LIKE %s OR LOWER(brand) LIKE %s) OR ...
NameDescriptionOrBrandLike(p, terms) ==
  \E k \in 1..Len(terms) :
    \/ LowerLike(p.name, TermPattern(terms[k]))
    \/ LowerLike(p.description, TermPattern(terms[k]))
    \/ LowerLike(p.brand, TermPattern(terms[k]))

\* Strategy 3: keyword search on names, descriptions and brands
keyword_search(connection, identification, limit) ==
  IF identification.search_terms = <<>> THEN Returned(<<>>, FALSE)
  ELSE IF connection.fails THEN Raised(TRUE)
  ELSE
    LET terms == Take(identification.search_terms, MaxSearchTerms)
        selected == SelectSeq(connection.rows, LAMBDA p :
                      NameDescriptionOrBrandLike(p, terms) /\ InStock(p))
        rows == SqlLimit(OrderByDesc(selected,
                  [k \in 1..Len(selected) |-> RatingKey(selected[k])]), limit)
    IN  IF \E k \in 1..Len(rows) : ~ValidProduct(rows[k]) THEN Raised(TRUE)
        ELSE Returned([k \in 1..Len(rows) |->
                        Candidate(rows[k], 60, sKeywordSearchMatch)], TRUE)

\* SQL: COUNT(pt.tag) over the product_tags rows of p with LOWER(pt.tag) IN (terms)
TagMatches(p, terms) ==
  Cardinality({t \in 1..Len(p.tags) :
    \E k \in 1..Len(terms) : Lower(p.tags[t]) = Lower(terms[k])})

\* ORDER BY tag_matches DESC, p.rating DESC, p.review_count DESC
TagsRatingKey(r) == <<r.tag_matches>> \o RatingKey(r.row)

\* max(0.2, (tag_matches / max_tags) * 0.6), in hundredths: the exact
\* quotient rounded down (the double of the code is that value or the
\* double next below it; 1.0 * 0.6 and the floor 0.2 are exact)
TagScore_NoFloor(tag_matches, max_tags) == (tag_matches * 60) \div max_tags

TagScore(tag_matches, max_tags) == Max(20, (tag_matches * 60) \div max_tags)

\* Strategy 4, `except Exception`: log a warning and return []
TagSearchExcept_Raise == Raised(TRUE)

TagSearchExcept == Returned(<<>>, TRUE)

\* Strategy 4: tag-based search; every exception raised after the
\* applicability test is caught inside and turned into []
tag_based_search(connection, identification, limit) ==
  IF identification.search_terms = <<>> THEN Returned(<<>>, FALSE)
  ELSE IF connection.fails THEN TagSearchExcept
  ELSE
    LET terms == Take(identification.search_terms, MaxSearchTerms)
        joined == SelectSeq(connection.rows, LAMBDA p :
                    TagMatches(p, terms) >= 1 /\ InStock(p))
        counted == [k \in 1..Len(joined) |->
                     [row |-> joined[k], tag_matches |-> TagMatches(joined[k], terms)]]
        rows == SqlLimit(OrderByDesc(counted,
                  [k \in 1..Len(counted) |-> TagsRatingKey(counted[k])]), limit)
        max_tags == IF rows # <<>>
                      THEN CHOOSE m \in {rows[k].tag_matches : k \in 1..Len(rows)} :
                             \A k \in 1..Len(rows) : rows[k].tag_matches <= m
                      ELSE 1
    IN  IF \E k \in 1..Len(rows) : ~ValidProduct(rows[k].row) THEN TagSearchExcept
        ELSE IF rows # <<>> /\ max_tags = 0 THEN TagSearchExcept   \* ZeroDivisionError
        ELSE Returned([k \in 1..Len(rows) |->
                        Candidate(rows[k].row, TagScore(rows[k].tag_matches, max_tags),
                                  sTagBasedOpen \o IntToStr(rows[k].tag_matches)
                                    \o sMatchingTags)], TRUE)

\* self.search_strategies[k - 1], called with (connection, identification, limit)
search_strategy(k, connection, identification, limit) ==
  CASE k = 1 -> exact_brand_category_search(connection, identification, limit)
    [] k = 2 -> category_keyword_search(connection, identification, limit)
    [] k = 3 -> keyword_search(connection, identification, limit)
    [] k = 4 -> tag_based_search(connection, identification, limit)

NumStrategies == 4   \* len(self.search_strategies)

(***************************************************************************)
(* State.                                                                  *)
(***************************************************************************)
Requests == {"r1", "r2"}   \* the search requests the server may be running

VARIABLES
  catalog,         \* the products table (with its tags), read-only
  app,             \* main.lifespan: "starting" until start-up is over
  pool,            \* db_manager.pool: 0 is None, n the n-th pool created
  poolsCreated,    \* pools aiomysql.create_pool has built so far
  pc,              \* where each request's coroutine stands
  identification,  \* the identification argument of each search
  limit,           \* the limit argument of each search
  connection,      \* the pool each request's connection came from (0: none)
  i,               \* the loop index of enumerate(self.search_strategies)
  log,             \* per request: the strategy invocations made, in order
  result,          \* per request: how the call ended
  filters,         \* the ProductSearchFilter argument of get_all_products
  listed,          \* how the call of get_all_products ended
  health           \* how the call of health_check ended

vars ==
  <<catalog, app, pool, poolsCreated, pc, identification, limit, connection,
    i, log, result, filters, listed, health>>

(***************************************************************************)
(* DatabaseManager.                                                        *)
(***************************************************************************)
CreatePoolOutcomes == {"ok", "connect_failed", "test_failed"}

\* DatabaseManager.create_pool: self.pool is assigned as soon as
\* aiomysql.create_pool returns, before the SELECT 1 test; any failure is
\* logged and re-raised
create_pool(outcome, created) ==
  CASE outcome = "ok" ->
         [assigned |-> TRUE, pool |-> created + 1, raised |-> FALSE,
          error |-> "none"]
    [] outcome = "connect_failed" ->
         [assigned |-> FALSE, pool |-> 0, raised |-> TRUE,
          error |-> "cannot connect to MySQL"]
    [] outcome = "test_failed" ->
         [assigned |-> TRUE, pool |-> created + 1, raised |-> TRUE,
          error |-> "connection test failed"]

\* DatabaseManager.get_connection, except clause: log and re-raise
get_connection_except_Swallow(error) == [raised |-> FALSE, error |-> error]

get_connection_except(error) == [raised |-> TRUE, error |-> error]

(***************************************************************************)
(* The response envelopes of find_similar_products_by_identification.      *)
(***************************************************************************)
Pending ==
  [kind |-> "pending", status |-> "none",
   message |-> [text |-> "", n |-> 0, error |-> ""],
   similar_products |-> <<>>, total_found |-> 0, strategy_used |-> 0]

\* the coroutine ran off its end: Python returns None
ReturnedNone == [Pending EXCEPT !.kind = "none"]

\* return {"status": "found", ...}; index is the 0-based loop index
FoundEnvelope_ZeroBased(products, index) ==
  [kind |-> "envelope", status |-> "found",
   message |-> [text |-> "Found {n} similar products", n |-> Len(products),
                error |-> ""],
   similar_products |-> products, total_found |-> Len(products),
   strategy_used |-> index]

FoundEnvelope(products, index) ==
  [kind |-> "envelope", status |-> "found",
   message |-> [text |-> "Found {n} similar products", n |-> Len(products),
                error |-> ""],
   similar_products |-> products, total_found |-> Len(products),
   strategy_used |-> index + 1]

\* return {"status": "not_found", ...}; the dict has no strategy_used key (0 here)
NotFoundEnvelope_AsError ==
  [kind |-> "envelope", status |-> "error",
   message |-> [text |-> "This product is not available in the database",
                n |-> 0, error |-> ""],
   similar_products |-> <<>>, total_found |-> 0, strategy_used |-> 0]

NotFoundEnvelope ==
  [kind |-> "envelope", status |-> "not_found",
   message |-> [text |-> "This product is not available in the database",
                n |-> 0, error |-> ""],
   similar_products |-> <<>>, total_found |-> 0, strategy_used |-> 0]

\* return {"status": "error", ...} of the outer except clause
ErrorEnvelope_AsNotFound(error) ==
  [kind |-> "envelope", status |-> "not_found",
   message |-> [text |-> "Database error: {e}", n |-> 0, error |-> error],
   similar_products |-> <<>>, total_found |-> 0, strategy_used |-> 0]

ErrorEnvelope(error) ==
  [kind |-> "envelope", status |-> "error",
   message |-> [text |-> "Database error: {e}", n |-> 0, error |-> error],
   similar_products |-> <<>>, total_found |-> 0, strategy_used |-> 0]

\* what the search returns when get_connection ends without yielding: an
\* exception reaches the outer except clause; with no exception the
\* `async for` body never runs and the coroutine returns None
OnNoConnection(ended) ==
  IF ended.raised THEN ErrorEnvelope(ended.error) ELSE ReturnedNone

\* `if products:` - a non-empty list ends the chain
StopsChain(products) == products # <<>>

\* enumerate(self.search_strategies): the next loop index
NextIndex_Skip(index) == index + 2

NextIndex(index) == index + 1

\* the inner `except Exception`: log a warning and continue with the next strategy
OnStrategyRaise_Propagate == "propagate"

OnStrategyRaise == "continue"

(***************************************************************************)
(* Initial states: the application is starting, no pool exists, and the    *)
(* first request waits to be served with some identification and limit.    *)
(***************************************************************************)
\* ProductSearchFilter() with no field given (its limit is 20 in the code;
\* the specifications that list products draw their filters from ListFilters)
DefaultFilter ==
  [category |-> NULL, brand |-> NULL, min_price |-> NoNumber, max_price |-> NoNumber,
   min_rating |-> NoNumber, in_stock_only |-> TRUE, limit |-> 1, offset |-> 0]

\* get_all_products has not returned
NotListed == [done |-> FALSE, store |-> "none", products |-> <<>>]

\* health_check has not returned
NotChecked ==
  [done |-> FALSE, store |-> "none",
   response |-> [status |-> "", database_connected |-> FALSE, total_products |-> 0]]

NoIdentification == [brand |-> NULL, category |-> NULL, search_terms |-> <<>>]

\* the state after construction, for a search of the first request drawn
\* from the given catalogs, identifications and limits, and for a listing
\* with one of the given filters
InitFrom(catalogs, identifications, limits, filterSet) ==
  /\ catalog \in catalogs
  /\ filters \in filterSet
  /\ listed = NotListed
  /\ health = NotChecked
  /\ app = "starting"
  /\ pool = 0
  /\ poolsCreated = 0
  /\ pc = [r \in Requests |-> IF r = "r1" THEN "idle" ELSE "off"]
  /\ \E ident \in identifications :
       identification = [r \in Requests |-> IF r = "r1" THEN ident ELSE NoIdentification]
  /\ \E n \in limits : limit = [r \in Requests |-> IF r = "r1" THEN n ELSE 1]
  /\ connection = [r \in Requests |-> 0]
  /\ i = [r \in Requests |-> 0]
  /\ log = [r \in Requests |-> <<>>]
  /\ result = [r \in Requests |-> Pending]

Init == InitFrom(Catalogs, Identifications, Limits, {DefaultFilter})

(***************************************************************************)
(* main.lifespan, start-up: create the pool; a failure is logged and the   *)
(* application starts without a database connection.                       *)
(***************************************************************************)
LifespanStartup ==
  /\ app = "starting"
  /\ \E outcome \in CreatePoolOutcomes :
       LET made == create_pool(outcome, poolsCreated)
       IN  /\ pool' = IF made.assigned THEN made.pool ELSE pool
           /\ poolsCreated' = IF made.assigned THEN poolsCreated + 1 ELSE poolsCreated
  /\ app' = "running"
  /\ UNCHANGED <<catalog, filters, listed, health, pc, identification, limit,
                 connection, i, log, result>>

(***************************************************************************)
(* find_similar_products_by_identification, one action per stretch of      *)
(* code between two awaits.                                                *)
(***************************************************************************)
\* the call: start_time is taken and get_db_connection() is entered
BeginSearch(r) ==
  /\ app = "running"
  /\ pc[r] = "idle"
  /\ pc' = [pc EXCEPT ![r] = "get_connection"]
  /\ UNCHANGED <<catalog, filters, listed, health, app, pool, poolsCreated, identification, limit,
                 connection, i, log, result>>

\* get_connection: `if not self.pool`
CheckPool(r) ==
  /\ pc[r] = "get_connection"
  /\ pc' = [pc EXCEPT ![r] = IF pool = 0 THEN "create_pool" ELSE "acquire"]
  /\ UNCHANGED <<catalog, filters, listed, health, app, pool, poolsCreated, identification, limit,
                 connection, i, log, result>>

\* get_connection: `await self.create_pool()`; its exception is outside the
\* try of get_connection and reaches the search's outer except clause
CreatePool(r) ==
  /\ pc[r] = "create_pool"
  /\ \E outcome \in CreatePoolOutcomes :
       LET made == create_pool(outcome, poolsCreated)
       IN  /\ pool' = IF made.assigned THEN made.pool ELSE pool
           /\ poolsCreated' = IF made.assigned THEN poolsCreated + 1 ELSE poolsCreated
           /\ IF made.raised
                THEN /\ result' = [result EXCEPT ![r] = ErrorEnvelope(made.error)]
                     /\ pc' = [pc EXCEPT ![r] = "done"]
                ELSE /\ result' = result
                     /\ pc' = [pc EXCEPT ![r] = "acquire"]
  /\ UNCHANGED <<catalog, filters, listed, health, app, identification, limit, connection, i, log>>

\* get_connection: `async with self.pool.acquire() as connection: yield connection`
Acquire(r) ==
  /\ pc[r] = "acquire"
  /\ \/ /\ connection' = [connection EXCEPT ![r] = pool]
        /\ i' = [i EXCEPT ![r] = 0]
        /\ pc' = [pc EXCEPT ![r] = "strategy"]
        /\ result' = result
     \/ /\ result' = [result EXCEPT ![r] =
                        OnNoConnection(get_connection_except("cannot acquire a connection"))]
        /\ pc' = [pc EXCEPT ![r] = "done"]
        /\ UNCHANGED <<connection, i>>
  /\ UNCHANGED <<catalog, filters, listed, health, app, pool, poolsCreated,
                 identification, limit, log>>

\* the arguments a search hands to its strategies: the parameters of its
\* own call, which live in the coroutine's frame
StrategyArguments_Shared(r) ==
  [identification |-> identification["r1"], limit |-> limit["r1"]]

StrategyArguments(r) ==
  [identification |-> identification[r], limit |-> limit[r]]

\* one iteration of `for i, search_strategy in enumerate(...)`: call the
\* strategy, return "found" on a non-empty list, continue on an empty list
\* or an exception
InvokeStrategy(r) ==
  /\ pc[r] = "strategy"
  /\ i[r] < NumStrategies
  /\ \E c \in Connections(catalog) :
     \E res \in {search_strategy(i[r] + 1, c, StrategyArguments(r).identification,
                                StrategyArguments(r).limit)} :
       /\ c.fails => res.queried
       /\ log' = [log EXCEPT ![r] = Append(@,
                    [strategy |-> i[r] + 1, store_fault |-> c.fails,
                     queried |-> res.queried, raised |-> res.raised,
                     products |-> res.products])]
       /\ IF res.raised
            THEN IF OnStrategyRaise = "continue"
                   THEN /\ i' = [i EXCEPT ![r] = NextIndex(@)]
                        /\ UNCHANGED <<pc, result>>
                   ELSE /\ result' = [result EXCEPT ![r] =
                                        ErrorEnvelope("strategy failed")]
                        /\ pc' = [pc EXCEPT ![r] = "done"]
                        /\ i' = i
            ELSE IF StopsChain(res.products)
                   THEN /\ result' = [result EXCEPT ![r] =
                                        FoundEnvelope(res.products, i[r])]
                        /\ pc' = [pc EXCEPT ![r] = "done"]
                        /\ i' = i
                   ELSE /\ i' = [i EXCEPT ![r] = NextIndex(@)]
                        /\ UNCHANGED <<pc, result>>
  /\ UNCHANGED <<catalog, filters, listed, health, app, pool, poolsCreated,
                 identification, limit, connection>>

\* the loop is exhausted: return {"status": "not_found", ...}
ReturnNotFound(r) ==
  /\ pc[r] = "strategy"
  /\ i[r] >= NumStrategies
  /\ result' = [result EXCEPT ![r] = NotFoundEnvelope]
  /\ pc' = [pc EXCEPT ![r] = "done"]
  /\ UNCHANGED <<catalog, filters, listed, health, app, pool, poolsCreated, identification, limit,
                 connection, i, log>>

Next ==
  \/ LifespanStartup
  \/ \E r \in Requests :
       \/ BeginSearch(r)
       \/ CheckPool(r)
       \/ CreatePool(r)
       \/ Acquire(r)
       \/ InvokeStrategy(r)
       \/ ReturnNotFound(r)

Spec == Init /\ [][Next]_vars

(***************************************************************************)
(* Searches by tag: catalogs whose rows differ in their product_tags rows, *)
(* in rating, review_count, stock and price, searched by identifications   *)
(* without brand and category, so that only strategies 3 and 4 apply; no   *)
(* name, description or brand contains a search term, so that strategy 3   *)
(* selects nothing and the chain reaches strategy 4.                       *)
(***************************************************************************)
TagBaseRow == [BaseRow EXCEPT !.name = sZed]

TagRowList ==
  << TagBaseRow,
     [TagBaseRow EXCEPT !.tags = <<sCam, sPenLower>>],
     [TagBaseRow EXCEPT !.tags = <<sCam, sCamUpper>>],
     [TagBaseRow EXCEPT !.tags = <<sCam, sCamUpper, sPen, sPenLower>>],
     [TagBaseRow EXCEPT !.tags = <<sPen>>, !.rating = 480],
     [TagBaseRow EXCEPT !.tags = <<sPen>>, !.review_count = 7],
     [TagBaseRow EXCEPT !.tags = <<sAcme>>],
     [TagBaseRow EXCEPT !.in_stock = FALSE],
     [TagBaseRow EXCEPT !.price = 0] >>

TagCatalogs ==
  UNION {{[k \in 1..n |-> [TagRowList[f[k]] EXCEPT !.id = k]] :
            f \in {g \in [1..n -> 1..Len(TagRowList)] :
                     \A k \in 1..(n - 1) : g[k] <= g[k + 1]}} :
         n \in 0..MaxCatalog}

TagIdentifications ==
  [brand : {NULL}, category : {NULL},
   search_terms : {<<>>, <<sCamUpper>>, <<sPenLower, sCamUpper>>,
                   <<sPenLower, sPenLower>>}]

TagInit == InitFrom(TagCatalogs, TagIdentifications, Limits, {DefaultFilter})

TagSpec == TagInit /\ [][Next]_vars

(***************************************************************************)
(* Searches by identifications whose brand, category and search terms are  *)
(* each missing, empty or set, over the catalogs of Spec.                  *)
(***************************************************************************)
ShapeIdentifications ==
  [brand : {NULL, <<>>, sAcmeLower},
   category : {NULL, <<>>, sElectronicsLower},
   search_terms : {<<>>, <<sPenLower>>}]

ShapeInit == InitFrom(Catalogs, ShapeIdentifications, Limits, {DefaultFilter})

ShapeSpec == ShapeInit /\ [][Next]_vars

(***************************************************************************)
(* Searches by keyword: search terms are free text (the identification     *)
(* service passes on whatever list it was given), so a term may hold the   *)
(* characters % and _, which LIKE reads as wildcards.                      *)
(***************************************************************************)
sUnderscoreTerm == <<"c","_","m">>
sPercentTerm == <<"%">>

KeywordIdentifications ==
  [brand : {NULL, sAcmeLower},
   category : {NULL, sElectronicsLower},
   search_terms : {<<>>, <<sCamUpper>>, <<sUnderscoreTerm>>, <<sPercentTerm>>}]

KeywordInit == InitFrom(Catalogs, KeywordIdentifications, Limits, {DefaultFilter})

KeywordSpec == KeywordInit /\ [][Next]_vars

(***************************************************************************)
(* Searches by identifications with two, three and four search terms,      *)
(* over catalogs whose rows match the terms by name, description, brand    *)
(* or tag.                                                                 *)
(***************************************************************************)
TermRowList ==
  << BaseRow,
     [BaseRow EXCEPT !.name = sPen],
     [BaseRow EXCEPT !.brand = sZed, !.description = sPenLower],
     [TagBaseRow EXCEPT !.tags = <<sPen, sZed>>],
     [BaseRow EXCEPT !.in_stock = FALSE] >>

TermCatalogs ==
  UNION {{[k \in 1..n |-> [TermRowList[f[k]] EXCEPT !.id = k]] :
            f \in {g \in [1..n -> 1..Len(TermRowList)] :
                     \A k \in 1..(n - 1) : g[k] <= g[k + 1]}} :
         n \in 0..MaxCatalog}

TermIdentifications ==
  [brand : {NULL},
   category : {NULL, sElectronicsLower},
   search_terms : {<<sToys, sFashion, sZed>>,
                   <<sToys, sFashion, sZed, sCamUpper>>,
                   <<sToys, sPenLower, sFashion, sCamUpper>>,
                   <<sPenLower, sCamUpper>>}]

TermInit == InitFrom(TermCatalogs, TermIdentifications, Limits, {DefaultFilter})

TermSpec == TermInit /\ [][Next]_vars

(***************************************************************************)
(* Searches over catalogs whose rows differ in the columns the strategies  *)
(* order by: rating (NULL included), review_count, brand (the bonus of     *)
(* strategy 2) and the number of matching tags.                            *)
(***************************************************************************)
OrderBaseRow == [BaseRow EXCEPT !.tags = <<sPen>>]

OrderRowList ==
  << OrderBaseRow,
     [OrderBaseRow EXCEPT !.rating = 480],
     [OrderBaseRow EXCEPT !.review_count = 7],
     [OrderBaseRow EXCEPT !.brand = sZed, !.rating = 480],
     [OrderBaseRow EXCEPT !.tags = <<sPen, sPenLower>>, !.rating = 400],
     [OrderBaseRow EXCEPT !.rating = NoNumber, !.review_count = 120] >>

OrderCatalogs ==
  UNION {{[k \in 1..n |-> [OrderRowList[f[k]] EXCEPT !.id = k]] :
            f \in {g \in [1..n -> 1..Len(OrderRowList)] :
                     \A k \in 1..(n - 1) : g[k] <= g[k + 1]}} :
         n \in 0..MaxCatalog}

OrderIdentifications ==
  [brand : {NULL, sAcmeLower},
   category : {NULL, sElectronicsLower},
   search_terms : {<<>>, <<sCamUpper>>, <<sPenLower>>}]

OrderInit == InitFrom(OrderCatalogs, OrderIdentifications, Limits, {DefaultFilter})

OrderSpec == OrderInit /\ [][Next]_vars

(***************************************************************************)
(* get_all_products: the filtered listing.                                 *)
(***************************************************************************)
\* Python truthiness of an Optional[Decimal]: None and 0 are falsy
NumTruthy(x) == x # NoNumber /\ x # 0

\* the WHERE clause built from the filters: a condition is appended for
\* each filter field that is truthy; a comparison with a NULL column is
\* not true
ListWhere(p, f) ==
  /\ Truthy(f.category) => LowerEq(p.category, f.category)
  /\ Truthy(f.brand) => LowerEq(p.brand, f.brand)
  /\ NumTruthy(f.min_price) => p.price >= f.min_price
  /\ NumTruthy(f.max_price) => p.price <= f.max_price
  /\ NumTruthy(f.min_rating) => (p.rating # NoNumber /\ p.rating >= f.min_rating)
  /\ f.in_stock_only => InStock(p)

\* ORDER BY rating DESC, review_count DESC, price ASC
ListKey(p) == <<p.rating, p.review_count, 0 - p.price>>

\* SQL: OFFSET %s
SqlOffset(rows, n) == [k \in 1..(IF Len(rows) > n THEN Len(rows) - n ELSE 0) |-> rows[k + n]]

\* Product(**row)
ProductOf(row) ==
  [id |-> row.id, name |-> row.name, description |-> row.description,
   category |-> row.category, brand |-> row.brand, price |-> row.price,
   rating |-> row.rating, review_count |-> row.review_count,
   in_stock |-> row.in_stock]

\* get_all_products once get_db_connection() has yielded (connected) or
\* raised: every exception is logged and turned into []
get_all_products(connected, conn, f) ==
  IF ~connected THEN [done |-> TRUE, store |-> "no_connection", products |-> <<>>]
  ELSE IF conn.fails THEN [done |-> TRUE, store |-> "query_failed", products |-> <<>>]
  ELSE
    LET selected == SelectSeq(conn.rows, LAMBDA p : ListWhere(p, f))
        ordered == OrderByDesc(selected,
                     [k \in 1..Len(selected) |-> ListKey(selected[k])])
        rows == SqlLimit(SqlOffset(ordered, f.offset), f.limit)
    IN  IF \E k \in 1..Len(rows) : ~ValidProduct(rows[k])
          THEN [done |-> TRUE, store |-> "ok", products |-> <<>>]
          ELSE [done |-> TRUE, store |-> "ok",
                products |-> [k \in 1..Len(rows) |-> ProductOf(rows[k])]]

\* the call of get_all_products(filters): get_connection creates the pool
\* when there is none, acquires a connection, and the query runs
ListProducts ==
  /\ app = "running"
  /\ ~listed.done
  /\ \E outcome \in IF pool = 0 THEN CreatePoolOutcomes ELSE {"ok"} :
     \E acquired \in BOOLEAN :
     \E conn \in Connections(catalog) :
       LET made == IF pool = 0
                     THEN create_pool(outcome, poolsCreated)
                     ELSE [assigned |-> FALSE, pool |-> pool, raised |-> FALSE,
                           error |-> "none"]
       IN  /\ pool' = IF made.assigned THEN made.pool ELSE pool
           /\ poolsCreated' = IF made.assigned THEN poolsCreated + 1 ELSE poolsCreated
           /\ listed' = get_all_products(~made.raised /\ acquired, conn, filters)
  /\ UNCHANGED <<catalog, filters, health, app, pc, identification, limit, connection,
                 i, log, result>>

ListRowList ==
  << BaseRow,
     [BaseRow EXCEPT !.price = 999],
     [BaseRow EXCEPT !.price = 2999, !.rating = 480],
     [BaseRow EXCEPT !.rating = NoNumber],
     [BaseRow EXCEPT !.review_count = 7],
     [BaseRow EXCEPT !.category = sToys, !.brand = sZed],
     [BaseRow EXCEPT !.in_stock = FALSE],
     [BaseRow EXCEPT !.price = 0] >>

ListCatalogs ==
  UNION {{[k \in 1..n |-> [ListRowList[f[k]] EXCEPT !.id = k]] :
            f \in {g \in [1..n -> 1..Len(ListRowList)] :
                     \A k \in 1..(n - 1) : g[k] <= g[k + 1]}} :
         n \in 0..MaxCatalog}

\* ProductSearchFilter: None, zero and positive bounds
ListFilters ==
  [category : {NULL, sElectronicsLower},
   brand : {NULL, sAcmeLower},
   min_price : {NoNumber, 1000},
   max_price : {NoNumber, 0, 2500},
   min_rating : {NoNumber, 0, 460},
   in_stock_only : BOOLEAN,
   limit : Limits,
   offset : {0, 1}]

ListInit == InitFrom(ListCatalogs, {NoIdentification}, {1}, ListFilters)

ListNext == LifespanStartup \/ ListProducts

ListSpec == ListInit /\ [][ListNext]_vars

(***************************************************************************)
(* Two searches served by the same event loop over the same catalog: both  *)
(* requests wait to be served, and their steps interleave at the awaits.   *)
(***************************************************************************)
ConcRowList ==
  << BaseRow,
     [BaseRow EXCEPT !.category = sToys] >>

ConcCatalogs ==
  UNION {{[k \in 1..n |-> [ConcRowList[f[k]] EXCEPT !.id = k]] :
            f \in {g \in [1..n -> 1..Len(ConcRowList)] :
                     \A k \in 1..(n - 1) : g[k] <= g[k + 1]}} :
         n \in 0..MaxCatalog}

ConcIdentifications ==
  { [brand |-> sAcmeLower, category |-> sElectronicsLower, search_terms |-> <<>>],
    [brand |-> NULL, category |-> sToys, search_terms |-> <<sCamUpper>>],
    [brand |-> NULL, category |-> NULL, search_terms |-> <<sPenLower>>] }

ConcInit ==
  /\ catalog \in ConcCatalogs
  /\ filters = DefaultFilter
  /\ listed = NotListed
  /\ health = NotChecked
  /\ app = "starting"
  /\ pool = 0
  /\ poolsCreated = 0
  /\ pc = [r \in Requests |-> "idle"]
  /\ identification \in [Requests -> ConcIdentifications]
  /\ limit = [r \in Requests |-> 1]
  /\ connection = [r \in Requests |-> 0]
  /\ i = [r \in Requests |-> 0]
  /\ log = [r \in Requests |-> <<>>]
  /\ result = [r \in Requests |-> Pending]

ConcSpec == ConcInit /\ [][Next]_vars

(***************************************************************************)
(* Searches that reach the brand bonus of strategy 2: an in-stock product  *)
(* of the identified category whose name holds the search term, next to    *)
(* rows of another brand, of no brand, of another category and out of      *)
(* stock; the identified brand is missing, empty or set.                   *)
(***************************************************************************)
BonusRowList ==
  << BaseRow,
     [BaseRow EXCEPT !.brand = sZed],
     [BaseRow EXCEPT !.brand = <<>>],
     [BaseRow EXCEPT !.category = sToys],
     [BaseRow EXCEPT !.in_stock = FALSE] >>

BonusCatalogs ==
  UNION {{[k \in 1..n |-> [BonusRowList[f[k]] EXCEPT !.id = k]] :
            f \in {g \in [1..n -> 1..Len(BonusRowList)] :
                     \A k \in 1..(n - 1) : g[k] <= g[k + 1]}} :
         n \in 0..MaxCatalog}

BonusIdentifications ==
  [brand : {NULL, <<>>, sAcmeLower},
   category : {sElectronicsLower},
   search_terms : {<<sCamUpper>>}]

BonusInit == InitFrom(BonusCatalogs, BonusIdentifications, Limits, {DefaultFilter})

BonusSpec == BonusInit /\ [][Next]_vars

(***************************************************************************)
(* GET /health: health_check calls get_database_stats and derives the      *)
(* HealthResponse from the statistics it returns.                          *)
(***************************************************************************)
\* the dict of the except clause of get_database_stats
ZeroStats ==
  [total_products |-> 0, total_categories |-> 0, total_brands |-> 0,
   in_stock_products |-> 0]

\* get_database_stats: COUNT(*), COUNT(DISTINCT category), COUNT(DISTINCT
\* brand) and the number of rows in stock; any exception (no connection, a
\* failed query) is logged and answered with the dict of zeros.  The two
\* averages of the dict, which health_check does not read, are left out
get_database_stats(connected, conn) ==
  IF ~connected \/ conn.fails
    THEN [raised |-> FALSE, stats |-> ZeroStats]
    ELSE [raised |-> FALSE,
          stats |->
            [total_products |-> Len(conn.rows),
             total_categories |->
               Cardinality({conn.rows[k].category : k \in 1..Len(conn.rows)} \ {NULL}),
             total_brands |->
               Cardinality({conn.rows[k].brand : k \in 1..Len(conn.rows)} \ {NULL}),
             in_stock_products |->
               Cardinality({k \in 1..Len(conn.rows) : conn.rows[k].in_stock})]]

\* HealthResponse(...); the timestamp is left out
HealthResponse(status, database_connected, total_products) ==
  [status |-> status, database_connected |-> database_connected,
   total_products |-> total_products]

\* health_check: database_connected = stats["total_products"] >= 0
DatabaseConnected(stats) == stats.total_products >= 0

\* health_check, given what get_database_stats did
health_check(got) ==
  IF got.raised
    THEN HealthResponse("unhealthy", FALSE, 0)
    ELSE LET database_connected == DatabaseConnected(got.stats)
         IN  HealthResponse(IF database_connected THEN "healthy" ELSE "unhealthy",
                            database_connected, got.stats.total_products)

\* the call of health_check: get_connection creates the pool when there is
\* none, acquires a connection, and the statistics query runs.  store
\* records how the Catalog Store answered during the call
HealthCheck ==
  /\ app = "running"
  /\ ~health.done
  /\ \E outcome \in IF pool = 0 THEN CreatePoolOutcomes ELSE {"ok"} :
     \E acquired \in BOOLEAN :
     \E conn \in Connections(catalog) :
       LET made == IF pool = 0
                     THEN create_pool(outcome, poolsCreated)
                     ELSE [assigned |-> FALSE, pool |-> pool, raised |-> FALSE,
                           error |-> "none"]
           connected == ~made.raised /\ acquired
       IN  /\ pool' = IF made.assigned THEN made.pool ELSE pool
           /\ poolsCreated' = IF made.assigned THEN poolsCreated + 1 ELSE poolsCreated
           /\ health' =
                [done |-> TRUE,
                 store |-> IF ~connected THEN "no_connection"
                           ELSE IF conn.fails THEN "query_failed" ELSE "ok",
                 response |-> health_check(get_database_stats(connected, conn))]
  /\ UNCHANGED <<catalog, filters, listed, app, pc, identification, limit, connection,
                 i, log, result>>

HealthInit == InitFrom(Catalogs, {NoIdentification}, {1}, {DefaultFilter})

HealthNext == LifespanStartup \/ HealthCheck

HealthSpec == HealthInit /\ [][HealthNext]_vars

(***************************************************************************)
(* Vocabulary of the properties.                                           *)
(***************************************************************************)
\* request r obtained a connection from the pool
Connected(r) == connection[r] # 0

\* the call of request r has returned
Finished(r) == pc[r] = "done"

\* the j-th strategy invocation of request r returned one or more candidates
ReturnedCandidates(r, j) == ~log[r][j].raised /\ log[r][j].products # <<>>

\* the j-th strategy invocation of request r returned [] or raised
EmptyOrFault(r, j) == log[r][j].raised \/ log[r][j].products = <<>>

\* what strategy k returns to request r when the store answers its query
Answer(r, k, computed) ==
  search_strategy(k, [rows |-> catalog, fails |-> FALSE, computed |-> computed],
                  identification[r], limit[r])

(***************************************************************************)
(* C1. A "found" result carries exactly the candidate list that the        *)
(* lowest-numbered strategy with a non-empty return gave back, unmodified, *)
(* and strategy_used is that strategy's 1-based number.                    *)
(***************************************************************************)
C1_FoundIsFirstNonEmptyStrategy ==
  \A r \in Requests :
    result[r].status = "found" =>
      LET k == result[r].strategy_used
      IN  /\ k \in 1..Len(log[r])
          /\ log[r][k].strategy = k
          /\ ReturnedCandidates(r, k)
          /\ \A j \in 1..Len(log[r]) : ReturnedCandidates(r, j) => j >= k
          /\ result[r].similar_products = log[r][k].products
          /\ \E computed \in {"Decimal", "float"} :
               result[r].similar_products = Answer(r, k, computed).products

\* found by strategy 2 with two candidates after strategy 1 returned [],
\* while strategy 3 would have matched too
C1_Witness ==
  \E r \in Requests :
    /\ result[r].status = "found"
    /\ result[r].strategy_used = 2
    /\ ~log[r][1].raised
    /\ Len(result[r].similar_products) = 2
    /\ Answer(r, 3, "float").products # <<>>

(***************************************************************************)
(* C2. The strategies of one search are invoked one after the other in     *)
(* the order 1, 2, 3, 4: a step that invokes a strategy invokes strategy   *)
(* n + 1 where strategies 1..n have each been invoked once, in order, and  *)
(* each returned [] or raised, and the search has not returned.            *)
(***************************************************************************)
C2_InvocationStep(r) ==
  log'[r] # log[r] =>
    /\ result[r].kind = "pending"
    /\ Len(log'[r]) = Len(log[r]) + 1
    /\ SubSeq(log'[r], 1, Len(log[r])) = log[r]
    /\ Len(log'[r]) <= NumStrategies
    /\ log'[r][Len(log'[r])].strategy = Len(log'[r])
    /\ \A j \in 1..Len(log[r]) : log[r][j].strategy = j /\ EmptyOrFault(r, j)

C2_SequentialFixedOrder == [][\A r \in Requests : C2_InvocationStep(r)]_vars

\* all four strategies were invoked, the fourth after three empty or
\* failed ones, and the fourth found candidates
C2_Witness ==
  \E r \in Requests :
    /\ Len(log[r]) = 4
    /\ \A j \in 1..4 : log[r][j].strategy = j
    /\ result[r].status = "found"
    /\ result[r].strategy_used = 4

(***************************************************************************)
(* C3. An exception raised by a strategy is caught at the strategy         *)
(* boundary and counts as zero candidates: the search goes on with the     *)
(* next strategy and never ends with an exception or an error envelope;    *)
(* when strategy 1 raises and strategy 2 returns candidates, the result    *)
(* is "found" by strategy 2.                                               *)
(***************************************************************************)
C3_StrategyFaultIsolated ==
  \A r \in Requests :
    \A j \in 1..Len(log[r]) :
      log[r][j].raised =>
        /\ result[r].kind \in {"pending", "envelope"}
        /\ result[r].status \in {"none", "found", "not_found"}
        /\ result[r].status = "found" => result[r].strategy_used > j
        /\ \/ Len(log[r]) > j
           \/ pc[r] = "strategy" /\ i[r] = j
           \/ j = NumStrategies /\ Finished(r)
        /\ (j = 1 /\ Len(log[r]) >= 2 /\ ReturnedCandidates(r, 2)) =>
             /\ result[r].status = "found"
             /\ result[r].strategy_used = 2
             /\ result[r].similar_products = log[r][2].products

\* the store failed strategy 1's query and strategy 2 found candidates
C3_Witness ==
  \E r \in Requests :
    /\ Len(log[r]) = 2
    /\ log[r][1].raised
    /\ log[r][1].store_fault
    /\ result[r].status = "found"
    /\ result[r].strategy_used = 2

(***************************************************************************)
(* C4. A search that obtains no connection (the pool cannot be created,    *)
(* or no connection can be acquired) returns an "error" envelope with a    *)
(* message naming the failure, no products and total_found 0, and invokes  *)
(* no strategy.                                                            *)
(***************************************************************************)
C4_NoConnectionIsError ==
  \A r \in Requests :
    /\ ~Connected(r) => log[r] = <<>>
    /\ (Finished(r) /\ ~Connected(r)) =>
         /\ result[r].kind = "envelope"
         /\ result[r].status = "error"
         /\ result[r].message.text = "Database error: {e}"
         /\ result[r].message.error # ""
         /\ result[r].similar_products = <<>>
         /\ result[r].total_found = 0

\* the pool did not exist and could not be created when the search asked for it
C4_Witness ==
  \E r \in Requests :
    /\ Finished(r)
    /\ ~Connected(r)
    /\ pool = 0
    /\ result[r].message.error = "cannot connect to MySQL"

(***************************************************************************)
(* C5. A search that obtained a connection and whose strategy invocations  *)
(* all returned [] or raised has invoked all four strategies and returns   *)
(* "not_found".                                                            *)
(***************************************************************************)
C5_ExhaustedIsNotFound ==
  \A r \in Requests :
    (Finished(r) /\ Connected(r) /\ \A j \in 1..Len(log[r]) : EmptyOrFault(r, j)) =>
      /\ Len(log[r]) = NumStrategies
      /\ result[r].kind = "envelope"
      /\ result[r].status = "not_found"

\* the store failed the query of every strategy: 1, 2 and 3 raised, 4
\* swallowed its fault
C5_Witness ==
  \E r \in Requests :
    /\ Finished(r)
    /\ Len(log[r]) = 4
    /\ \A j \in 1..4 : log[r][j].store_fault
    /\ result[r].status = "not_found"

(***************************************************************************)
(* C6. Every search that has been called returns, and what it returns is   *)
(* an envelope whose status is "found", "not_found" or "error": it never   *)
(* ends with an exception or with None.  Termination is stated by a rank:  *)
(* a search that has not returned can always take a step, and every step   *)
(* it takes lowers the number of steps it has left.                        *)
(***************************************************************************)
C6_Returned(r) ==
  /\ Finished(r)
  /\ result[r].kind = "envelope"
  /\ result[r].status \in {"found", "not_found", "error"}

\* the steps request r still has before it at most
C6_Rank(r) ==
  CASE pc[r] \in {"off", "done"} -> 0
    [] pc[r] = "strategy" -> 1 + IF i[r] < NumStrategies THEN NumStrategies - i[r] ELSE 0
    [] pc[r] = "acquire" -> NumStrategies + 2
    [] pc[r] = "create_pool" -> NumStrategies + 3
    [] pc[r] = "get_connection" -> NumStrategies + 4
    [] pc[r] = "idle" -> NumStrategies + 5

\* a search that was called and has not returned can take a step: the
\* step of its stretch of code is enabled (a strategy can always be
\* invoked, no guard of InvokeStrategy depends on the store)
C6_CanStep(r) ==
  /\ pc[r] = "get_connection" => ENABLED CheckPool(r)
  /\ pc[r] = "create_pool" => ENABLED CreatePool(r)
  /\ pc[r] = "acquire" => ENABLED Acquire(r)
  /\ pc[r] = "strategy" => (i[r] < NumStrategies \/ ENABLED ReturnNotFound(r))

C6_AlwaysAnEnvelope ==
  /\ [](\A r \in Requests :
          /\ result[r].kind \in {"pending", "envelope"}
          /\ Finished(r) => C6_Returned(r)
          /\ C6_CanStep(r))
  /\ [][\A r \in Requests :
          <<pc[r], i[r], log[r], result[r]>>' # <<pc[r], i[r], log[r], result[r]>>
            => C6_Rank(r)' < C6_Rank(r)]_vars

\* a search that returned after the store failed the acquisition of a connection
C6_Witness ==
  \E r \in Requests :
    /\ C6_Returned(r)
    /\ result[r].message.error = "cannot acquire a connection"

(***************************************************************************)
(* C7. In every envelope, "found" comes with a non-empty list of at most   *)
(* `limit` products and total_found equal to its length; "not_found" and   *)
(* "error" come with no products and total_found 0.  No strategy returns   *)
(* more than `limit` candidates.                                           *)
(***************************************************************************)
C7_EnvelopeShape ==
  \A r \in Requests :
    /\ \A j \in 1..Len(log[r]) : Len(log[r][j].products) <= limit[r]
    /\ result[r].status = "found" =>
         /\ result[r].similar_products # <<>>
         /\ Len(result[r].similar_products) <= limit[r]
         /\ result[r].total_found = Len(result[r].similar_products)
    /\ result[r].status \in {"not_found", "error"} =>
         /\ result[r].similar_products = <<>>
         /\ result[r].total_found = 0

\* a search with limit 1 over a catalog in which two rows match returns one
C7_Witness ==
  \E r \in Requests :
    /\ result[r].status = "found"
    /\ limit[r] = 1
    /\ Len(result[r].similar_products) = 1
    /\ \E c \in Connections(catalog) :
         /\ ~c.fails
         /\ Len(search_strategy(result[r].strategy_used, c, identification[r],
                                MaxCatalog).products) = 2

(***************************************************************************)
(* C8. When the identification has a brand and a category and some         *)
(* in-stock product has that brand and that category (compared without     *)
(* case), strategy 1 returns such a product with similarity_score 0.95     *)
(* and the search is "found" by strategy 1.  It is stated for searches     *)
(* that obtained a connection and whose strategy 1 query the store         *)
(* answered.                                                               *)
(***************************************************************************)
C8_Matches(r, p) ==
  /\ p.in_stock
  /\ LowerEq(p.brand, identification[r].brand)
  /\ LowerEq(p.category, identification[r].category)

C8_ExactMatchFoundByStrategy1 ==
  \A r \in Requests :
    ( /\ Finished(r)
      /\ Connected(r)
      /\ Truthy(identification[r].brand)
      /\ Truthy(identification[r].category)
      /\ \E k \in 1..Len(catalog) : C8_Matches(r, catalog[k])
      /\ ~log[r][1].store_fault )
    =>
      /\ result[r].status = "found"
      /\ result[r].strategy_used = 1
      /\ \A k \in 1..Len(result[r].similar_products) :
           /\ C8_Matches(r, result[r].similar_products[k])
           /\ result[r].similar_products[k].similarity_score = 95

(***************************************************************************)
(* C9. For an identification whose category is set and is none of the      *)
(* five categories of the enumeration (compared without case), strategy 1  *)
(* and strategy 2 return no candidates.                                    *)
(***************************************************************************)
C9_Unrecognized(category) ==
  /\ Truthy(category)
  /\ \A v \in valid_categories : Lower(v) # Lower(category)

C9_UnrecognizedCategoryMatchesNothing ==
  \A r \in Requests :
    \A j \in 1..Len(log[r]) :
      (C9_Unrecognized(identification[r].category) /\ log[r][j].strategy \in {1, 2})
        => log[r][j].products = <<>>

(***************************************************************************)
(* C10. Strategy 2 gives every row it selects the score                    *)
(* min(0.8 + bonus, 1.0), which lies in [0.8, 1.0]: the bonus is 0.2 for   *)
(* a row whose brand is the identification's brand (compared without       *)
(* case) and 0 for every other row, and for every row when the             *)
(* identification has no brand.  It is stated for invocations whose query  *)
(* the store answered and whose selected rows are valid products.          *)
(***************************************************************************)
C10_Selected(r) ==
  SelectSeq(catalog, LAMBDA p :
    /\ p.in_stock
    /\ LowerEq(p.category, identification[r].category)
    /\ NameOrDescriptionLike(p, Take(identification[r].search_terms, MaxSearchTerms)))

C10_Score(r, p) ==
  IF Truthy(identification[r].brand) /\ LowerEq(p.brand, identification[r].brand)
    THEN 100 ELSE 80

C10_Strategy2Score ==
  \A r \in Requests :
    \A j \in 1..Len(log[r]) :
      ( /\ log[r][j].strategy = 2
        /\ log[r][j].queried
        /\ ~log[r][j].store_fault
        /\ \A k \in 1..Len(C10_Selected(r)) : ValidProduct(C10_Selected(r)[k]) )
      =>
        /\ ~log[r][j].raised
        /\ Len(log[r][j].products) = Min(Len(C10_Selected(r)), limit[r])
        /\ \A k \in 1..Len(log[r][j].products) :
             /\ log[r][j].products[k].similarity_score
                  = C10_Score(r, log[r][j].products[k])
             /\ log[r][j].products[k].similarity_score \in 80..100

(***************************************************************************)
(* Vocabulary of the claims about single strategies.                       *)
(***************************************************************************)
\* the first three search terms of request r
FirstTerms(r) == Take(identification[r].search_terms, MaxSearchTerms)

\* the product_tags rows of the catalog row a candidate was made from that
\* equal one of the first three search terms, compared without case
MatchingTagRows(r, p) ==
  {t \in 1..Len(catalog[p.id].tags) :
     \E k \in 1..Len(FirstTerms(r)) :
       Lower(catalog[p.id].tags[t]) = Lower(FirstTerms(r)[k])}

\* t occurs in s as a run of consecutive characters
Contains(s, t) ==
  \E n \in 0..(Len(s) - Len(t)) : SubSeq(s, n + 1, n + Len(t)) = t

\* the j-th invocation of request r is one of strategy k whose query the
\* store answered
Answered(r, j, k) ==
  /\ log[r][j].strategy = k
  /\ log[r][j].queried
  /\ ~log[r][j].store_fault

(***************************************************************************)
(* C11. Every list strategy 4 returns is scored by                         *)
(* max(0.2, (tag_matches / max_tags) * 0.6), max_tags being the largest    *)
(* tag_matches of the returned rows: each score lies in [0.2, 0.6], is     *)
(* 0.2 when the quotient is at most 0.2 and the quotient (to the           *)
(* hundredth) otherwise, a row with tag_matches = max_tags has exactly     *)
(* 0.6, and max_tags is at least 1, so that no division by zero occurs.    *)
(***************************************************************************)
C11_MaxTags(r, j) ==
  LET counts == {Cardinality(MatchingTagRows(r, log[r][j].products[k])) :
                   k \in 1..Len(log[r][j].products)}
  IN  CHOOSE m \in counts : \A c \in counts : c <= m

C11_TagScore ==
  \A r \in Requests :
    \A j \in 1..Len(log[r]) :
      (log[r][j].strategy = 4 /\ log[r][j].products # <<>>) =>
        LET max_tags == C11_MaxTags(r, j)
        IN  /\ max_tags >= 1
            /\ \A k \in 1..Len(log[r][j].products) :
                 LET p == log[r][j].products[k]
                     tag_matches == Cardinality(MatchingTagRows(r, p))
                 IN  /\ p.similarity_score \in 20..60
                     /\ tag_matches = max_tags => p.similarity_score = 60
                     /\ IF tag_matches * 60 <= 20 * max_tags
                          THEN p.similarity_score = 20
                          ELSE /\ p.similarity_score * max_tags <= tag_matches * 60
                               /\ tag_matches * 60 < (p.similarity_score + 1) * max_tags

\* strategy 4 returned a row with four matching tags at 0.6 and a row with
\* one matching tag, whose quotient 0.15 is raised to 0.2
C11_Witness ==
  \E r \in Requests :
    /\ Len(log[r]) = 4
    /\ Len(log[r][4].products) = 2
    /\ log[r][4].products[1].similarity_score = 60
    /\ log[r][4].products[2].similarity_score = 20
    /\ Cardinality(MatchingTagRows(r, log[r][4].products[1])) = 4
    /\ Cardinality(MatchingTagRows(r, log[r][4].products[2])) = 1

(***************************************************************************)
(* C12. The tag_matches strategy 4 reports for a returned product (the     *)
(* count in its match_reason) is the number of distinct supplied terms,    *)
(* among the first three, that equal one of the product's tags without     *)
(* case; it never exceeds the number of distinct supplied terms, also      *)
(* when the product carries tags that differ only in letter case.          *)
(***************************************************************************)
\* the first three search terms of request r, without case and repetition
C12_DistinctTerms(r) == {Lower(FirstTerms(r)[k]) : k \in 1..Len(FirstTerms(r))}

\* those of them that equal a tag of the catalog row of candidate p
C12_TermsMatched(r, p) ==
  {t \in C12_DistinctTerms(r) :
     \E n \in 1..Len(catalog[p.id].tags) : Lower(catalog[p.id].tags[n]) = t}

C12_TagMatchesCountsTerms ==
  \A r \in Requests :
    \A j \in 1..Len(log[r]) :
      log[r][j].strategy = 4 =>
        \A k \in 1..Len(log[r][j].products) :
          LET p == log[r][j].products[k]
          IN  /\ p.match_reason =
                   sTagBasedOpen \o IntToStr(Cardinality(C12_TermsMatched(r, p)))
                     \o sMatchingTags
              /\ \E n \in 0..Cardinality(C12_DistinctTerms(r)) :
                   p.match_reason = sTagBasedOpen \o IntToStr(n) \o sMatchingTags

(***************************************************************************)
(* C13. Strategy 4 fails soft: its invocation never raises; when the       *)
(* store fails its query, or a fetched row cannot be processed, it         *)
(* returns []; and a search whose strategies 1 to 3 returned [] and whose  *)
(* strategy 4 met a fault ends as "not_found".                             *)
(***************************************************************************)
\* a row strategy 4 fetches for request r that Product(**row) rejects
C13_FetchesInvalidRow(r) ==
  /\ \E k \in 1..Len(catalog) :
       /\ ~ValidProduct(catalog[k])
       /\ catalog[k].in_stock
       /\ \E t \in 1..Len(catalog[k].tags) : \E n \in 1..Len(FirstTerms(r)) :
            Lower(catalog[k].tags[t]) = Lower(FirstTerms(r)[n])
  /\ Len(catalog) <= limit[r]

C13_TagSearchFailsSoft ==
  \A r \in Requests :
    \A j \in 1..Len(log[r]) :
      log[r][j].strategy = 4 =>
        /\ ~log[r][j].raised
        /\ log[r][j].store_fault => log[r][j].products = <<>>
        /\ (~log[r][j].store_fault /\ C13_FetchesInvalidRow(r))
             => log[r][j].products = <<>>
        /\ ( /\ Finished(r)
             /\ \A n \in 1..(j - 1) : ~log[r][n].raised /\ log[r][n].products = <<>>
             /\ (log[r][j].store_fault \/ C13_FetchesInvalidRow(r)) )
           => result[r].status = "not_found"

\* strategies 1 to 3 returned [] without a fault, the store failed the
\* query of strategy 4 although a product carries a matching tag, and the
\* search returned "not_found"
C13_Witness ==
  \E r \in Requests :
    /\ Finished(r)
    /\ Len(log[r]) = 4
    /\ \A n \in 1..3 : ~log[r][n].raised /\ ~log[r][n].store_fault
    /\ log[r][4].store_fault
    /\ \E k \in 1..Len(catalog) :
         /\ catalog[k].in_stock
         /\ ValidProduct(catalog[k])
         /\ \E t \in 1..Len(catalog[k].tags) : \E n \in 1..Len(FirstTerms(r)) :
              Lower(catalog[k].tags[t]) = Lower(FirstTerms(r)[n])
    /\ result[r].status = "not_found"

(***************************************************************************)
(* C14. Every candidate of a "found" envelope has a similarity_score in    *)
(* the band of the strategy that produced it: exactly 0.95 for strategy    *)
(* 1, within [0.8, 1.0] for strategy 2, exactly 0.6 for strategy 3,        *)
(* within [0.2, 0.6] for strategy 4; and every candidate is a product of   *)
(* the catalog that is in stock.                                           *)
(***************************************************************************)
C14_Band(k) ==
  CASE k = 1 -> {95}
    [] k = 2 -> 80..100
    [] k = 3 -> {60}
    [] k = 4 -> 20..60

C14_ScoreBands ==
  \A r \in Requests :
    result[r].status = "found" =>
      /\ result[r].strategy_used \in 1..NumStrategies
      /\ \A k \in 1..Len(result[r].similar_products) :
           LET p == result[r].similar_products[k]
           IN  /\ p.similarity_score \in C14_Band(result[r].strategy_used)
               /\ p.id \in 1..Len(catalog)
               /\ catalog[p.id].in_stock
               /\ p.in_stock

\* found by strategy 2 with a candidate at 1.0 (brand bonus) before one at 0.8
C14_Witness ==
  \E r \in Requests :
    /\ result[r].status = "found"
    /\ result[r].strategy_used = 2
    /\ Len(result[r].similar_products) = 2
    /\ result[r].similar_products[1].similarity_score = 100
    /\ result[r].similar_products[2].similarity_score = 80

(***************************************************************************)
(* C15. When the identification's brand or category is missing or empty,   *)
(* strategy 1 returns [] without raising and without sending a query to    *)
(* the store, and the chain goes on with strategy 2.                       *)
(***************************************************************************)
C15_MissingOrEmpty(s) == s = NULL \/ Len(s) = 0

C15_Strategy1Inapplicable ==
  \A r \in Requests :
    ( /\ Len(log[r]) >= 1
      /\ \/ C15_MissingOrEmpty(identification[r].brand)
         \/ C15_MissingOrEmpty(identification[r].category) )
    =>
      /\ log[r][1].strategy = 1
      /\ ~log[r][1].raised
      /\ log[r][1].products = <<>>
      /\ ~log[r][1].queried
      /\ \/ Len(log[r]) = 1 /\ pc[r] = "strategy" /\ i[r] = 1
         \/ Len(log[r]) >= 2 /\ log[r][2].strategy = 2

\* an identification with a category and the empty string as brand: strategy
\* 1 sent no query although the catalog holds rows of that category, and
\* strategy 2 was invoked next and queried the store
C15_Witness ==
  \E r \in Requests :
    /\ identification[r].brand = <<>>
    /\ identification[r].category = sElectronicsLower
    /\ Len(catalog) >= 1
    /\ Len(log[r]) >= 2
    /\ ~log[r][1].queried
    /\ log[r][2].strategy = 2
    /\ log[r][2].queried

(***************************************************************************)
(* C16. Strategy 2 returns a candidate for a product only if the product   *)
(* is in stock, its category equals the identification's category without  *)
(* case, and its name or description contains, without case, one of the    *)
(* first three search terms as a substring; when the category is missing   *)
(* or there is no search term it returns [] without a query.               *)
(***************************************************************************)
C16_ContainsTerm(r, column) ==
  /\ column # NULL
  /\ \E k \in 1..Len(FirstTerms(r)) :
       Contains(Lower(column), Lower(FirstTerms(r)[k]))

C16_Strategy2Selection ==
  \A r \in Requests :
    \A j \in 1..Len(log[r]) :
      log[r][j].strategy = 2 =>
        /\ \A k \in 1..Len(log[r][j].products) :
             LET row == catalog[log[r][j].products[k].id]
             IN  /\ row.in_stock
                 /\ Lower(row.category) = Lower(identification[r].category)
                 /\ \/ C16_ContainsTerm(r, row.name)
                    \/ C16_ContainsTerm(r, row.description)
        /\ ( \/ C15_MissingOrEmpty(identification[r].category)
             \/ identification[r].search_terms = <<>> )
           => (~log[r][j].queried /\ ~log[r][j].raised /\ log[r][j].products = <<>>)

(***************************************************************************)
(* C17. Only the first three search terms influence matching: what         *)
(* strategy 2, 3 or 4 returns for an identification is what it returns,    *)
(* over the same catalog, store and limit, for every identification with   *)
(* the same brand, category and first three terms, whatever terms follow   *)
(* the third.                                                              *)
(***************************************************************************)
\* the terms of a list up to the third
C17_Prefix(terms) ==
  [k \in 1..(IF Len(terms) < 3 THEN Len(terms) ELSE 3) |-> terms[k]]

\* terms that may follow the third
C17_Tails == {<<>>, <<sCamUpper>>, <<sPenLower>>, <<sPenLower, sCamUpper>>}

\* the identifications that agree with that of request r on brand,
\* category and the first three terms
C17_Variants(r) ==
  {[brand |-> identification[r].brand, category |-> identification[r].category,
    search_terms |-> C17_Prefix(identification[r].search_terms) \o tail] :
     tail \in IF Len(identification[r].search_terms) < 3 THEN {<<>>} ELSE C17_Tails}

C17_OnlyFirstThreeTerms ==
  \A r \in Requests :
    \A j \in 1..Len(log[r]) :
      log[r][j].strategy \in 2..4 =>
        \E computed \in {"Decimal", "float"} :
          \A alt \in C17_Variants(r) :
            LET res == search_strategy(log[r][j].strategy,
                         [rows |-> catalog, fails |-> log[r][j].store_fault,
                          computed |-> computed], alt, limit[r])
            IN  /\ res.products = log[r][j].products
                /\ res.raised = log[r][j].raised

\* strategy 3 returned candidates for an identification with four terms
\* whose fourth term alone would have selected a different list
C17_Witness ==
  \E r \in Requests :
    /\ Len(identification[r].search_terms) = 4
    /\ Len(log[r]) >= 3
    /\ log[r][3].products # <<>>
    /\ LET alone == [identification[r] EXCEPT
                       !.search_terms = <<identification[r].search_terms[4]>>]
           res == search_strategy(3, [rows |-> catalog, fails |-> FALSE,
                                      computed |-> "float"], alone, limit[r])
       IN  res.products # <<>> /\ res.products # log[r][3].products

(***************************************************************************)
(* C18. The match_reason of a strategy 1 candidate states the brand and    *)
(* the category that matched: for the catalog product of brand "Acme" and  *)
(* category "Electronics" and the identification of brand "acme" and       *)
(* category "electronics", the match_reason of the single candidate        *)
(* contains "Acme" and contains "Electronics".                             *)
(***************************************************************************)
C18_MatchReasonNamesBrandAndCategory ==
  \A r \in Requests :
    ( /\ identification[r].brand = sAcmeLower
      /\ identification[r].category = sElectronicsLower
      /\ result[r].status = "found"
      /\ result[r].strategy_used = 1
      /\ Len(result[r].similar_products) = 1
      /\ result[r].similar_products[1].brand = sAcme
      /\ result[r].similar_products[1].category = sElectronics )
    =>
      /\ Contains(result[r].similar_products[1].match_reason, sAcme)
      /\ Contains(result[r].similar_products[1].match_reason, sElectronics)

(***************************************************************************)
(* C19. The candidates of each strategy are sorted by that strategy's      *)
(* key: strategies 1 and 3 by descending rating, then descending           *)
(* review_count; strategy 2 by descending brand bonus, then rating, then   *)
(* review_count; strategy 4 by descending tag_matches, then rating, then   *)
(* review_count (a NULL rating sorting last).  So the similarity_scores    *)
(* of a "found" envelope never increase along the list.                    *)
(***************************************************************************)
\* the sort key of candidate p of request r under strategy k
C19_Key(r, k, p) ==
  CASE k \in {1, 3} -> <<p.rating, p.review_count>>
    [] k = 2 ->
         <<IF identification[r].brand # NULL
                /\ Lower(p.brand) = Lower(identification[r].brand) THEN 1 ELSE 0,
           p.rating, p.review_count>>
    [] k = 4 -> <<Cardinality(MatchingTagRows(r, p)), p.rating, p.review_count>>

\* key a does not sort after key b in descending lexicographic order
C19_NotAfter(a, b) ==
  \/ a = b
  \/ \E k \in 1..Len(a) : a[k] > b[k] /\ \A m \in 1..(k - 1) : a[m] = b[m]

C19_SortedByStrategyKey ==
  \A r \in Requests :
    /\ \A j \in 1..Len(log[r]) :
         \A k \in 1..(Len(log[r][j].products) - 1) :
           C19_NotAfter(C19_Key(r, log[r][j].strategy, log[r][j].products[k]),
                        C19_Key(r, log[r][j].strategy, log[r][j].products[k + 1]))
    /\ result[r].status = "found" =>
         \A k \in 1..(Len(result[r].similar_products) - 1) :
           result[r].similar_products[k].similarity_score
             >= result[r].similar_products[k + 1].similarity_score

\* a strategy returned two candidates in the reverse of the table's order:
\* the row inserted second has the greater key
C19_Witness ==
  \E r \in Requests :
    \E j \in 1..Len(log[r]) :
      /\ Len(log[r][j].products) = 2
      /\ log[r][j].products[1].id = 2
      /\ log[r][j].products[2].id = 1
      /\ C19_Key(r, log[r][j].strategy, log[r][j].products[1])
           # C19_Key(r, log[r][j].strategy, log[r][j].products[2])
      /\ log[r][j].strategy = 4

(***************************************************************************)
(* C20. get_all_products returns exactly the products that satisfy every   *)
(* filter field that is set (category and brand equal without case,        *)
(* price >= min_price, price <= max_price, rating >= min_rating, in stock  *)
(* when in_stock_only), sorted by rating descending, review_count          *)
(* descending, price ascending, without the first `offset` rows and at     *)
(* most `limit` rows; a bound that is set is applied whatever its value,   *)
(* 0 included.  It is stated for listings whose query the store answered   *)
(* over catalogs of valid products.                                        *)
(***************************************************************************)
\* row p satisfies every filter field that is set (not None)
C20_Satisfies(p, f) ==
  /\ f.category # NULL => Lower(p.category) = Lower(f.category)
  /\ f.brand # NULL => Lower(p.brand) = Lower(f.brand)
  /\ f.min_price # NoNumber => p.price >= f.min_price
  /\ f.max_price # NoNumber => p.price <= f.max_price
  /\ f.min_rating # NoNumber => (p.rating # NoNumber /\ p.rating >= f.min_rating)
  /\ f.in_stock_only => p.in_stock

C20_Matching == {k \in 1..Len(catalog) : C20_Satisfies(catalog[k], filters)}

C20_Key(p) == <<p.rating, p.review_count, 0 - p.price>>

C20_ListedExactlyFiltered ==
  ( /\ listed.done
    /\ listed.store = "ok"
    /\ \A k \in 1..Len(catalog) : ValidProduct(catalog[k]) )
  =>
    LET n == Cardinality(C20_Matching)
        rest == IF n > filters.offset THEN n - filters.offset ELSE 0
    IN  /\ \A k \in 1..Len(listed.products) : listed.products[k].id \in C20_Matching
        /\ \A k, m \in 1..Len(listed.products) :
             listed.products[k].id = listed.products[m].id => k = m
        /\ Len(listed.products) = Min(filters.limit, rest)
        /\ \A k \in 1..(Len(listed.products) - 1) :
             C19_NotAfter(C20_Key(listed.products[k]), C20_Key(listed.products[k + 1]))

(***************************************************************************)
(* C21. Searches running concurrently over the same catalog do not         *)
(* interfere: under every interleaving of their steps, a finished search   *)
(* has returned an envelope (status, candidates, strategy_used) that it    *)
(* returns when it runs alone with its own identification and limit over   *)
(* the catalog and meets the same store faults.                            *)
(***************************************************************************)
\* the envelopes a search running alone returns from strategy k on, when
\* the store fails the invocations that faults marks
RECURSIVE C21_Alone(_, _, _, _, _)
C21_Alone(k, cat, ident, lim, faults) ==
  IF k > NumStrategies
    THEN {NotFoundEnvelope}
    ELSE UNION
      { LET res == search_strategy(k, c, ident, lim)
        IN  IF ~res.raised /\ StopsChain(res.products)
              THEN {FoundEnvelope(res.products, k - 1)}
              ELSE C21_Alone(k + 1, cat, ident, lim, faults) :
        c \in {d \in Connections(cat) :
                 /\ d.fails => search_strategy(k, d, ident, lim).queried
                 /\ k <= Len(faults) => d.fails = faults[k]} }

\* the envelopes a search running alone returns when it gets no connection
C21_AloneWithoutConnection ==
  {ErrorEnvelope(create_pool(outcome, 0).error) :
     outcome \in {"connect_failed", "test_failed"}}
    \cup {OnNoConnection(get_connection_except("cannot acquire a connection"))}

C21_SearchesDoNotInterfere ==
  \A r \in Requests :
    Finished(r) =>
      IF Connected(r)
        THEN result[r] \in
               C21_Alone(1, catalog, identification[r], limit[r],
                         [j \in 1..Len(log[r]) |-> log[r][j].store_fault])
        ELSE result[r] \in C21_AloneWithoutConnection

\* two searches with different identifications overlapped (each created a
\* pool of its own, so both were past `if not self.pool` before either
\* pool existed) and ended with different "found" envelopes
C21_Witness ==
  /\ \A r \in Requests : Finished(r) /\ Connected(r) /\ result[r].status = "found"
  /\ identification["r1"] # identification["r2"]
  /\ result["r1"].strategy_used # result["r2"].strategy_used
  /\ poolsCreated = 2

(***************************************************************************)
(* C22. Whenever a search returns "found" via strategy 2 and strategy 1    *)
(* was invoked in that search without faulting, no candidate carries the   *)
(* brand bonus: every similarity_score is exactly 0.8 (80 hundredths).  A  *)
(* strategy 2 candidate scores above 0.8 only after a strategy 1 fault.    *)
(***************************************************************************)
\* request r returned "found" via strategy 2
C22_FoundByStrategy2(r) ==
  /\ Finished(r)
  /\ result[r].status = "found"
  /\ result[r].strategy_used = 2

\* strategy 1 was invoked in the search of request r and did not raise
C22_Strategy1DidNotFault(r) ==
  /\ Len(log[r]) >= 1
  /\ log[r][1].strategy = 1
  /\ ~log[r][1].raised

C22_NoBonusAfterStrategy1 ==
  \A r \in Requests :
    (C22_FoundByStrategy2(r) /\ C22_Strategy1DidNotFault(r)) =>
      \A k \in 1..Len(result[r].similar_products) :
        result[r].similar_products[k].similarity_score = 80

\* strategy 1 queried the store for the identified brand and category and
\* found nothing, although the catalog holds a row of that brand; strategy
\* 2 then returned a product of another brand
C22_Witness ==
  /\ C22_FoundByStrategy2("r1")
  /\ C22_Strategy1DidNotFault("r1")
  /\ log["r1"][1].queried
  /\ \E k \in 1..Len(catalog) : LowerEq(catalog[k].brand, identification["r1"].brand)
  /\ \E k \in 1..Len(result["r1"].similar_products) :
       ~LowerEq(result["r1"].similar_products[k].brand, identification["r1"].brand)

(***************************************************************************)
(* C23. Lazy pool creation is race-free: when several requests call        *)
(* get_connection while no pool exists, at most one pool is ever built,    *)
(* and every request that holds a connection got it from the pool that     *)
(* db_manager.pool refers to, so no pool is created and then orphaned.     *)
(***************************************************************************)
C23_SinglePool ==
  /\ poolsCreated <= 1
  /\ \A r \in Requests : Connected(r) => connection[r] = pool

(***************************************************************************)
(* C24. The health check tests database connectivity: whenever the Catalog *)
(* Store is unreachable at the time of the call (no connection, or the     *)
(* statistics query fails), health_check returns status "unhealthy" with   *)
(* database_connected = false; it returns "healthy" with                   *)
(* database_connected = true only when the statistics query succeeded.     *)
(***************************************************************************)
C24_HealthReflectsStore ==
  health.done =>
    /\ health.store # "ok" =>
         /\ health.response.status = "unhealthy"
         /\ ~health.response.database_connected
    /\ (health.response.status = "healthy" /\ health.response.database_connected) =>
         health.store = "ok"

====
